---- MODULE Spec2Model ----
(***************************************************************************)
(* Model of metrics/metrics_classifier.py: the streaming pipeline          *)
(* process_bits_per_sec(source, value, label, window_size) over the        *)
(* module-level stores thresholds, historical_data and bits_model.         *)
(*                                                                         *)
(* The nested dictionaries {source: {metric: ...}} are flattened to        *)
(* {source: ...}: the only metric key the program uses is "bits_per_sec".  *)
(* A dictionary is a function whose DOMAIN is its key set.                 *)
(*                                                                         *)
(* bits_model is river's HoeffdingTreeClassifier, which is not part of the *)
(* repository. It is modelled after sections 4.2 and 4.5 of the design     *)
(* document as one leaf: per-class counts, the first-seen class order and  *)
(* the feature values that entered the statistics. Split evaluation is not *)
(* modelled.                                                               *)
(***************************************************************************)
EXTENDS Integers, Sequences, FiniteSets, TLC

VARIABLES thresholds, historical_data, bits_model, passed, windows, ncalls, lastCall

vars == <<thresholds, historical_data, bits_model, passed, windows, ncalls, lastCall>>

(***************************************************************************)
(* Program constants                                                       *)
(***************************************************************************)
DefaultThreshold == 500000
DefaultWindowSize == 1000
MinSamples == 5
None == "None"

(***************************************************************************)
(* Bounds of the model                                                     *)
(***************************************************************************)
MaxCalls == 3
MaxStream == 7
SmallWindow == 1

Sources == {"source_a", "source_b"}
Values == {-10, 100, 500000}
Labels == {None, "bad"}
Windows == {DefaultWindowSize}
ThresholdValues == {0, 250000}

StreamSource == "source_j"
StreamValues == {100, 500000}
StreamLabels == {None, "good"}
StreamWindows == {SmallWindow, DefaultWindowSize}

(***************************************************************************)
(* Arithmetic: the float quotient of two integers, kept as a reduced       *)
(* fraction with a positive denominator. Division by zero raises.          *)
(***************************************************************************)
Abs(n) == IF n < 0 THEN -n ELSE n

RECURSIVE GCD(_, _)
GCD(a, b) == IF b = 0 THEN a ELSE GCD(b, a % b)

Zero == [raised |-> FALSE, num |-> 0, den |-> 1]

TrueDiv(a, b) ==
    IF b = 0 THEN [raised |-> TRUE, num |-> 0, den |-> 0]
    ELSE LET g == GCD(Abs(a), Abs(b))
             s == IF b < 0 THEN -1 ELSE 1
         IN  [raised |-> FALSE, num |-> (s * a) \div g, den |-> Abs(b) \div g]

(***************************************************************************)
(* The classifier (library): one leaf                                      *)
(***************************************************************************)
EmptyModel == [order |-> <<>>, counts |-> <<>>, seen |-> {}]

\* the class with the highest count, ties broken by first-seen order;
\* None while no example was learned
predict_one(model, features) ==
    IF model.order = <<>> THEN None
    ELSE LET n == Len(model.order)
             best == CHOOSE i \in 1..n :
                        /\ \A j \in 1..n : model.counts[j] <= model.counts[i]
                        /\ \A j \in 1..(i - 1) : model.counts[j] < model.counts[i]
         IN  model.order[best]

learn_one(model, features, label) ==
    IF \E i \in 1..Len(model.order) : model.order[i] = label
    THEN [model EXCEPT !.counts = [i \in 1..Len(model.order) |->
                                      IF model.order[i] = label
                                      THEN model.counts[i] + 1 ELSE model.counts[i]],
                       !.seen = @ \cup {features}]
    ELSE [order |-> Append(model.order, label),
          counts |-> Append(model.counts, 1),
          seen |-> model.seen \cup {features}]

(***************************************************************************)
(* process_bits_per_sec, block by block                                    *)
(***************************************************************************)
\* a learn step that does not look at the label
TruthyAlways(label) == TRUE

\* line 48: Python truthiness of the label argument
Truthy(label) == label # None /\ label # ""

\* the default written on every call
SetDefaultOverwrite(th, source) ==
    [s \in DOMAIN th \cup {source} |-> IF s = source THEN DefaultThreshold ELSE th[s]]

\* the default written in bps/1000
SetDefaultKilo(th, source) ==
    IF source \notin DOMAIN th
    THEN [s \in DOMAIN th \cup {source} |->
             IF s = source THEN DefaultThreshold \div 1000 ELSE th[s]]
    ELSE th

\* lines 26-27: the default threshold of a source that has none
SetDefault(th, source) ==
    IF source \notin DOMAIN th
    THEN [s \in DOMAIN th \cup {source} |-> IF s = source THEN DefaultThreshold ELSE th[s]]
    ELSE th

\* the guard admitting a zero threshold
RelativeToMinGuardGE(value, min_threshold) ==
    IF min_threshold >= 0 THEN TrueDiv(value, min_threshold) ELSE Zero

\* line 33
RelativeToMin(value, min_threshold) ==
    IF min_threshold > 0 THEN TrueDiv(value, min_threshold) ELSE Zero

\* historical_data[source]["bits_per_sec"] of a defaultdict
HistoryOf(hd, source) == IF source \in DOMAIN hd THEN hd[source] ELSE <<>>

\* line 41
PredictGate(history) == Len(history) > MinSamples

\* the two classifier calls swapped
LearnThenPredict(model, gate, features, label) ==
    LET model2 == IF Truthy(label) THEN learn_one(model, features, label) ELSE model
        ops1 == IF Truthy(label) THEN <<"learn_one">> ELSE <<>>
        prediction == IF gate THEN predict_one(model2, features) ELSE None
        ops2 == IF gate THEN Append(ops1, "predict_one") ELSE ops1
    IN  [prediction |-> prediction, model |-> model2, ops |-> ops2]

\* the result initialised to the label instead of None
PredictionStartsAsLabel(model, gate, features, label) ==
    LET prediction == IF gate THEN predict_one(model, features) ELSE label
        ops1 == IF gate THEN <<"predict_one">> ELSE <<>>
        model2 == IF Truthy(label) THEN learn_one(model, features, label) ELSE model
        ops2 == IF Truthy(label) THEN Append(ops1, "learn_one") ELSE ops1
    IN  [prediction |-> prediction, model |-> model2, ops |-> ops2]

\* lines 40-50: the classifier calls of one invocation, in program order
PredictThenLearn(model, gate, features, label) ==
    LET prediction == IF gate THEN predict_one(model, features) ELSE None
        ops1 == IF gate THEN <<"predict_one">> ELSE <<>>
        model2 == IF Truthy(label) THEN learn_one(model, features, label) ELSE model
        ops2 == IF Truthy(label) THEN Append(ops1, "learn_one") ELSE ops1
    IN  [prediction |-> prediction, model |-> model2, ops |-> ops2]

\* eviction of the newest value
UpdateHistoryPopLast(history, value, window_size) ==
    LET h == Append(history, value)
    IN  IF Len(h) > window_size THEN SubSeq(h, 1, Len(h) - 1) ELSE h

\* lines 53-55
UpdateHistory(history, value, window_size) ==
    LET h == Append(history, value)
    IN  IF Len(h) > window_size THEN Tail(h) ELSE h

Put(f, k, v) == [x \in DOMAIN f \cup {k} |-> IF x = k THEN v ELSE f[x]]

process_bits_per_sec(source, value, label, window_size) ==
    LET th == SetDefault(thresholds, source)
        min_threshold == th[source]
        relative_to_min == RelativeToMin(value, min_threshold)
        history == HistoryOf(historical_data, source)
        r == PredictThenLearn(bits_model, PredictGate(history), relative_to_min, label)
        call == [source |-> source, value |-> value, label |-> label,
                 window_size |-> window_size,
                 had_threshold |-> source \in DOMAIN thresholds,
                 min_threshold |-> min_threshold,
                 relative_to_min |-> relative_to_min,
                 prior |-> Len(HistoryOf(passed, source)),
                 ops |-> IF relative_to_min.raised THEN <<>> ELSE r.ops,
                 prediction |-> IF relative_to_min.raised THEN None ELSE r.prediction,
                 returned |-> ~relative_to_min.raised]
    IN  /\ thresholds' = th
        /\ ncalls' = ncalls + 1
        /\ lastCall' = call
        /\ passed' = Put(passed, source, Append(HistoryOf(passed, source), value))
        /\ windows' = Put(windows, source,
                          (IF source \in DOMAIN windows THEN windows[source] ELSE {})
                              \cup {window_size})
        /\ IF relative_to_min.raised
           THEN UNCHANGED <<historical_data, bits_model>>
           ELSE /\ bits_model' = r.model
                /\ historical_data' =
                       Put(historical_data, source, UpdateHistory(history, value, window_size))

\* thresholds[source]["bits_per_sec"] = value, done outside the function
set_threshold(source, value) ==
    /\ thresholds' = Put(thresholds, source, value)
    /\ UNCHANGED <<historical_data, bits_model, passed, windows, ncalls, lastCall>>

NoCall == [source |-> "", value |-> 0, label |-> None, window_size |-> 0,
           had_threshold |-> FALSE, min_threshold |-> 0, relative_to_min |-> Zero,
           prior |-> 0, ops |-> <<>>, prediction |-> None, returned |-> FALSE]

Init ==
    /\ thresholds = <<>>
    /\ historical_data = <<>>
    /\ bits_model = EmptyModel
    /\ passed = <<>>
    /\ windows = <<>>
    /\ ncalls = 0
    /\ lastCall = NoCall

Call ==
    /\ ncalls < MaxCalls
    /\ \E source \in Sources, value \in Values, label \in Labels, window_size \in Windows :
           process_bits_per_sec(source, value, label, window_size)

SetThreshold ==
    \E source \in Sources, value \in ThresholdValues : set_threshold(source, value)

Next == Call \/ SetThreshold

Spec == Init /\ [][Next]_vars

StreamCall ==
    /\ ncalls < MaxStream
    /\ \E value \in StreamValues, label \in StreamLabels, window_size \in StreamWindows :
           process_bits_per_sec(StreamSource, value, label, window_size)

NextStream == StreamCall

SpecStream == Init /\ [][NextStream]_vars

(***************************************************************************)
(* Properties                                                              *)
(***************************************************************************)
IsCall == ncalls' = ncalls + 1

Has(ops, name) == \E i \in 1..Len(ops) : ops[i] = name

Min(a, b) == IF a < b THEN a ELSE b

LastN(seq, n) == SubSeq(seq, Len(seq) - n + 1, Len(seq))

One == [raised |-> FALSE, num |-> 1, den |-> 1]

\* C1: in a call that both predicts and learns, predict_one runs before
\* learn_one, and the prediction returned is the one the model held before
\* the call gives for the call's features, whatever the call's label is.
C1_PredictBeforeLearn ==
    [][(IsCall /\ Has(lastCall'.ops, "predict_one") /\ Has(lastCall'.ops, "learn_one"))
          => /\ lastCall'.ops = <<"predict_one", "learn_one">>
             /\ lastCall'.prediction = predict_one(bits_model, lastCall'.relative_to_min)
             /\ bits_model' = learn_one(bits_model, lastCall'.relative_to_min, lastCall'.label)]_vars

\* a call that predicted and learned, whose prediction differs from what the
\* model answers once the call's label is learned
C1_Witness ==
    /\ Has(lastCall.ops, "predict_one")
    /\ Has(lastCall.ops, "learn_one")
    /\ lastCall.prediction # predict_one(bits_model, lastCall.relative_to_min)

C3_AtMostWindow ==
    (ncalls > 0 /\ lastCall.returned)
        => Len(historical_data[lastCall.source]) <= lastCall.window_size

\* C4: a call whose label is None leaves the classifier as it was.
C4_UnlabeledKeepsModel ==
    [][(IsCall /\ lastCall'.label = None) => bits_model' = bits_model]_vars

\* an unlabeled call that ran predict_one on a trained model
C4_Witness ==
    /\ ncalls > 0
    /\ lastCall.label = None
    /\ Has(lastCall.ops, "predict_one")
    /\ bits_model # EmptyModel

\* C5: a call changes no threshold that exists and removes none; the only
\* entry it may write is the default of the call's source, when it had none.
C5_ThresholdsReadOnly ==
    [][IsCall
          => /\ \A s \in DOMAIN thresholds :
                    s \in DOMAIN thresholds' /\ thresholds'[s] = thresholds[s]
             /\ \A s \in DOMAIN thresholds' \ DOMAIN thresholds :
                    s = lastCall'.source /\ thresholds'[s] = DefaultThreshold]_vars

\* a call for a source whose threshold was set from outside to another value
\* than the default, with a defaulted threshold of the other source in place
C5_Witness ==
    /\ ncalls > 1
    /\ lastCall.had_threshold
    /\ lastCall.min_threshold = 250000
    /\ thresholds[lastCall.source] = 250000
    /\ \E s \in DOMAIN thresholds : s # lastCall.source /\ thresholds[s] = DefaultThreshold

\* C6: a call for a source whose threshold is 0 keeps the 0, derives the
\* feature 0 for every value and completes: it returns, learns from a label
\* and appends the value to the history.
C6_ZeroThreshold ==
    [][(IsCall /\ lastCall'.source \in DOMAIN thresholds
               /\ thresholds[lastCall'.source] = 0)
          => /\ thresholds'[lastCall'.source] = 0
             /\ lastCall'.relative_to_min = Zero
             /\ lastCall'.returned
             /\ (Has(lastCall'.ops, "learn_one") <=> Truthy(lastCall'.label))
             /\ (Truthy(lastCall'.label) => Zero \in bits_model'.seen)
             /\ Len(historical_data'[lastCall'.source]) > 0
             /\ historical_data'[lastCall'.source][Len(historical_data'[lastCall'.source])]
                    = lastCall'.value]_vars

\* a labeled call with a nonzero value under a threshold of 0
C6_Witness ==
    /\ ncalls > 0
    /\ lastCall.had_threshold
    /\ lastCall.min_threshold = 0
    /\ lastCall.value # 0
    /\ lastCall.label = "bad"
    /\ lastCall.returned
    /\ lastCall.relative_to_min = Zero

\* C7: a call for a source without threshold creates the threshold 500000 and
\* derives value / 500000 from it; the value 500000 gives exactly 1.
C7_DefaultThreshold ==
    [][(IsCall /\ lastCall'.source \notin DOMAIN thresholds)
          => /\ thresholds'[lastCall'.source] = 500000
             /\ lastCall'.min_threshold = 500000
             /\ lastCall'.relative_to_min = TrueDiv(lastCall'.value, 500000)
             /\ (lastCall'.value = 500000 => lastCall'.relative_to_min = One)]_vars

\* the value 500000 passed for a new source
C7_Witness ==
    /\ ncalls > 0
    /\ ~lastCall.had_threshold
    /\ lastCall.value = 500000
    /\ lastCall.relative_to_min = One
    /\ thresholds[lastCall.source] = 500000

\* C8: the call that follows exactly five earlier calls for its source (all
\* keeping the full history) runs predict_one.
C8_PredictOnSixthCall ==
    (ncalls > 0 /\ lastCall.prior = MinSamples
                /\ windows[lastCall.source] = {DefaultWindowSize})
        => Has(lastCall.ops, "predict_one")

\* C9: no negative feature enters the statistics of the model.
C9_NoNegativeFeatureLearned ==
    \A f \in bits_model.seen : f.num >= 0

\* C10: a call made while the classifier has learned nothing returns None
\* and completes, whether the history gate skips predict_one or not.
C10_ColdStartNone ==
    [][(IsCall /\ bits_model = EmptyModel)
          => lastCall'.returned /\ lastCall'.prediction = None]_vars

\* predict_one ran on the model that has learned nothing
C10_Witness ==
    /\ bits_model = EmptyModel
    /\ Has(lastCall.ops, "predict_one")
    /\ lastCall.returned
    /\ lastCall.prediction = None
====
